---- MODULE Spec2Model ----
(***************************************************************************)
(* Model of process_pdfs.py: MultilingualPDFExtractor (normalize_text,     *)
(* clean_text_for_detection, detect_language, is_likely_heading,           *)
(* extract_title_and_headings) and the batch driver main().                *)
(*                                                                         *)
(* A text is a sequence of characters; a character is a one-character      *)
(* string, or the token "U+XXXX" for a non-ASCII code point.  Font sizes   *)
(* as delivered by the PDF reader are integers in hundredths of a point;   *)
(* rounded sizes (round(size, 1)) are integers in tenths of a point.       *)
(***************************************************************************)
EXTENDS Integers, Sequences, FiniteSets, TLC

VARIABLES
    \* ---- main() ----
    pdf_files,          \* the directory listing: a sequence of documents
    file_idx,           \* position of the for-loop over pdf_files (1-based)
    pc,                 \* control point of main / extract_title_and_headings
    result,             \* value returned by extract_title_and_headings
    outputs,            \* the per-document JSON files written so far
    results_summary,    \* main's results_summary list
    summary,            \* processing_summary.json
    returned,           \* history of every (file, result) main received
    write_errors,       \* files whose "Failed to write JSON" error was logged
    \* ---- locals of extract_title_and_headings ----
    font_sizes,         \* defaultdict(int): rounded size -> number of spans
    text_blocks,        \* list of {"text", "font_size", "page"}
    all_text,
    total_pages,
    document_language,
    sorted_fonts,
    font_mapping,       \* dict: level name -> rounded size
    title,
    outline,
    title_block,        \* index in text_blocks of the block title was taken from
    \* ---- the extractor instance ----
    rtl_languages,
    \* ---- langdetect (seeded, line 13): the answers it has given so far ----
    detect_answers,
    \* ---- normalize_text applied to one input, then to its own output ----
    n_pc, n_text, n_lang, n_once, n_twice

vars == <<pdf_files, file_idx, pc, result, outputs, results_summary, summary,
          returned, write_errors, font_sizes, text_blocks, all_text, total_pages,
          document_language, sorted_fonts, font_mapping, title, outline,
          title_block, rtl_languages, detect_answers,
          n_pc, n_text, n_lang, n_once, n_twice>>

mainVars == <<pdf_files, file_idx, result, outputs, results_summary, summary,
              returned, write_errors>>
localVars == <<font_sizes, text_blocks, all_text, total_pages,
               document_language, sorted_fonts, font_mapping, title, outline,
               title_block>>
normVars == <<n_pc, n_text, n_lang, n_once, n_twice>>

(***************************************************************************)
(* Characters                                                              *)
(***************************************************************************)
\* Python's None
NoneValue == [none |-> TRUE]
\* processing_summary.json could not be written
SummaryFailed == [failed |-> TRUE]

Rep(c, n) == [i \in 1..n |-> c]

UpperLetters == <<"A","B","C","D","E","F","G","H","I","J","K","L","M",
                  "N","O","P","Q","R","S","T","U","V","W","X","Y","Z">>
LowerLetters == <<"a","b","c","d","e","f","g","h","i","j","k","l","m",
                  "n","o","p","q","r","s","t","u","v","w","x","y","z">>
Range(s) == {s[i] : i \in DOMAIN s}

\* str.isspace / the regex class \s on str patterns (Unicode white space)
WhiteSpace == {" ", "\t", "\n", "U+00A0"}
IsSpace(c) == c \in WhiteSpace
\* the regex class \d on str patterns (Unicode decimal digits)
IsDigit(c) == c \in {"0","1","2","3","4","5","6","7","8","9","U+FF11","U+0661"}
IsUpperChar(c) == c \in Range(UpperLetters)
IsLowerChar(c) == c \in Range(LowerLetters) \cup {"U+00E1", "U+00ED", "U+FB01"}
\* the regex class \w on str patterns
IsWord(c) == \/ IsUpperChar(c) \/ IsLowerChar(c) \/ IsDigit(c) \/ c = "_"
             \/ c \in {"U+7B2C", "U+4E00", "U+0627"}
\* code points at or above U+0080
IsHigh(c) == c \in {"U+00A0", "U+00B4", "U+00E1", "U+00ED", "U+0301", "U+FB01",
                    "U+FF11", "U+7B2C", "U+4E00", "U+0627", "U+0661"}
\* the regex class [\u0600-\u06FF]
IsArabicRange(c) == c \in {"U+0627", "U+0661"}

ToLower(c) ==
    IF IsUpperChar(c)
    THEN LowerLetters[CHOOSE i \in DOMAIN UpperLetters : UpperLetters[i] = c]
    ELSE c

(***************************************************************************)
(* unicodedata.normalize('NFKC', text) on the modelled characters:         *)
(* compatibility decomposition, then canonical composition.                *)
(***************************************************************************)
Decomposable == {"U+00A0", "U+FB01", "U+00B4", "U+00E1", "U+00ED", "U+FF11"}
Decompose(c) ==
    IF c \notin Decomposable THEN <<c>>
    ELSE CASE c = "U+00A0" -> <<" ">>                \* NO-BREAK SPACE
           [] c = "U+FB01" -> <<"f", "i">>           \* LATIN SMALL LIGATURE FI
           [] c = "U+00B4" -> <<" ", "U+0301">>      \* ACUTE ACCENT
           [] c = "U+00E1" -> <<"a", "U+0301">>      \* a WITH ACUTE
           [] c = "U+00ED" -> <<"i", "U+0301">>      \* i WITH ACUTE
           [] c = "U+FF11" -> <<"1">>                \* FULLWIDTH DIGIT ONE

\* every character replaced by its decomposition (of one or two characters)
DecomposeAll(t) ==
    LET slots == [k \in 1..(2 * Len(t)) |->
                     LET d == Decompose(t[(k + 1) \div 2])
                     IN  IF k % 2 = 1 THEN d[1]
                         ELSE IF Len(d) = 2 THEN d[2] ELSE "absent"]
    IN  SelectSeq(slots, LAMBDA c : c # "absent")

\* the canonical composites of the modelled characters: a or i, then U+0301
HasComposite(b, m) == m = "U+0301" /\ b \in {"a", "i"}
Composite(b, m) == IF b = "a" THEN "U+00E1" ELSE "U+00ED"

\* canonical composition: a combining mark joins the starter right before it
\* when the pair has a composite (a composite takes no second mark)
ComposeAll(d) ==
    LET marked == [i \in DOMAIN d |->
                      IF i > 1 /\ HasComposite(d[i - 1], d[i]) THEN "absent"
                      ELSE IF i < Len(d) /\ HasComposite(d[i], d[i + 1])
                           THEN Composite(d[i], d[i + 1])
                           ELSE d[i]]
    IN  SelectSeq(marked, LAMBDA c : c # "absent")

NFKC(t) == ComposeAll(DecomposeAll(t))

(***************************************************************************)
(* str.strip() and re.sub(r'\s+', ' ', text)                               *)
(***************************************************************************)
\* number of consecutive white-space characters of t from position i on
SpaceRun(t, i) ==
    Cardinality({k \in i..Len(t) : \A j \in i..k : IsSpace(t[j])})

\* number of consecutive digits of t from position i on
DigitRun(t, i) ==
    Cardinality({k \in i..Len(t) : \A j \in i..k : IsDigit(t[j])})

\* number of consecutive white-space characters at the end of t
SpaceRunBack(t) ==
    Cardinality({k \in 1..Len(t) : \A j \in k..Len(t) : IsSpace(t[j])})

Strip(t) ==
    LET lead == SpaceRun(t, 1)
    IN  IF lead = Len(t) THEN <<>>
        ELSE SubSeq(t, lead + 1, Len(t) - SpaceRunBack(t))

\* every maximal run of white space becomes one " "
CollapseSpaces(t) ==
    LET marked == [i \in DOMAIN t |->
                      IF ~IsSpace(t[i]) THEN t[i]
                      ELSE IF i > 1 /\ IsSpace(t[i - 1]) THEN "absent"
                      ELSE " "]
    IN  SelectSeq(marked, LAMBDA c : c # "absent")

RtlLanguages == {"ar", "he", "fa", "ur"}

\* normalize_text with the trimming done before the Unicode normalization
normalize_text_TrimFirst(text, language, rtl) ==
    IF text = <<>> THEN <<>>
    ELSE IF language \in rtl THEN NFKC(Strip(text))
         ELSE NFKC(Strip(CollapseSpaces(text)))

normalize_text(text, language, rtl) ==
    IF text = <<>> THEN <<>>
    ELSE LET t == NFKC(text)
         IN  IF language \in rtl THEN Strip(t)
             ELSE Strip(CollapseSpaces(t))

(***************************************************************************)
(* clean_text_for_detection and detect_language                            *)
(***************************************************************************)
clean_text_for_detection(text) ==
    IF text = <<>> THEN <<>>
    ELSE LET t == CollapseSpaces(text)
             u == [i \in DOMAIN t |->
                      IF IsWord(t[i]) \/ IsSpace(t[i]) \/ IsHigh(t[i])
                      THEN t[i] ELSE " "]
         IN  Strip(u)

MinDetectLen == 10

\* what langdetect.detect may answer (or raise, which yields "unknown")
Languages == {"unknown", "en", "zh", "ja", "ar", "he"}

\* the set of values detect_language(text) can return
detect_language(text) ==
    IF Len(Strip(clean_text_for_detection(text))) < MinDetectLen
    THEN {"unknown"}
    ELSE Languages

(***************************************************************************)
(* is_likely_heading                                                       *)
(***************************************************************************)
MaxHeadingLen == 200
MaxUpperLen == 50

\* re.search of a chapter ideograph, \s*, then [CJK numeral or \d]+  (line 87)
IsCjkMarker(c) == c = "U+7B2C"
IsCjkNumeral(c) == c = "U+4E00" \/ IsDigit(c)
MatchCjkChapter(t) ==
    \E i \in DOMAIN t :
        /\ IsCjkMarker(t[i])
        /\ LET j == i + 1 + SpaceRun(t, i + 1)
           IN  j <= Len(t) /\ IsCjkNumeral(t[j])

\* re.search(r'^[\u0600-\u06FF\s]*[\d\u0660-\u0669]+[\u0600-\u06FF\s]*$', text)
IsArabicOrSpace(c) == IsArabicRange(c) \/ IsSpace(c)
MatchArabicNumbered(t) ==
    /\ \A k \in DOMAIN t : IsArabicOrSpace(t[k]) \/ IsDigit(t[k])
    /\ \E i \in DOMAIN t : \E j \in i..Len(t) :
          /\ \A k \in i..j : IsDigit(t[k])
          /\ \A k \in DOMAIN t : (k < i \/ k > j) => IsArabicOrSpace(t[k])

\* re.search(r'^\d+[\.\)]\s', text)
MatchNumbered(t) ==
    LET d == DigitRun(t, 1)
    IN  /\ d >= 1
        /\ d + 2 <= Len(t)
        /\ t[d + 1] \in {".", ")"}
        /\ IsSpace(t[d + 2])

\* str.isupper(): at least one cased character and no lowercase one
IsUpperText(t) ==
    /\ \E i \in DOMAIN t : IsUpperChar(t[i])
    /\ \A i \in DOMAIN t : ~IsLowerChar(t[i])

\* re.search(r'^(Chapter|Section|Part)\s+\d+', text, re.IGNORECASE)
HeadingWords == {<<"c","h","a","p","t","e","r">>,
                 <<"s","e","c","t","i","o","n">>,
                 <<"p","a","r","t">>}
MatchChapter(t) ==
    \E w \in HeadingWords :
        /\ Len(t) >= Len(w)
        /\ \A i \in DOMAIN w : ToLower(t[i]) = w[i]
        /\ LET s == SpaceRun(t, Len(w) + 1)
           IN  s >= 1 /\ DigitRun(t, Len(w) + 1 + s) >= 1

\* is_likely_heading without the length guard of its first statement
is_likely_heading_NoLengthGuard(text, language) ==
    \/ language \in {"zh", "ja"} /\ MatchCjkChapter(text)
    \/ language \in {"ar", "he"} /\ MatchArabicNumbered(text)
    \/ MatchNumbered(text)
    \/ IsUpperText(text) /\ Len(text) < MaxUpperLen
    \/ MatchChapter(text)

is_likely_heading(text, language) ==
    IF Len(text) > MaxHeadingLen THEN FALSE
    ELSE \/ language \in {"zh", "ja"} /\ MatchCjkChapter(text)
         \/ language \in {"ar", "he"} /\ MatchArabicNumbered(text)
         \/ MatchNumbered(text)
         \/ IsUpperText(text) /\ Len(text) < MaxUpperLen
         \/ MatchChapter(text)

(***************************************************************************)
(* extract_title_and_headings: the scan of the document (lines 112-147)    *)
(*                                                                         *)
(* A document is [readable, pages]; pages is the sequence of its pages, a  *)
(* page the sequence of the lines of its text blocks, a line the sequence  *)
(* of its spans, a span [size, text].                                      *)
(***************************************************************************)
\* round(span["size"], 1), from hundredths to tenths of a point
Round1(h) == (h + 5) \div 10

EmptyTally == [k \in {} |-> 0]

\* font_sizes[font_size] += 1 on a defaultdict(int)
Increment(fs, k) ==
    [x \in DOMAIN fs \cup {k} |->
        IF x = k THEN (IF k \in DOMAIN fs THEN fs[k] + 1 ELSE 1) ELSE fs[x]]

\* the loop over line["spans"]: [fs, line_text, line_font_size]
RECURSIVE ScanSpans(_, _, _)
ScanSpans(spans, acc, rtl) ==
    IF spans = <<>> THEN acc
    ELSE LET span == Head(spans)
             font_size == Round1(span.size)
         IN  ScanSpans(Tail(spans),
                 [fs |-> Increment(acc.fs, font_size),
                  line_text |-> acc.line_text
                                \o normalize_text(span.text, "unknown", rtl),
                  line_font_size |-> font_size],
                 rtl)

\* one iteration of the loop over block["lines"]
ScanLine(line, page_num, st, rtl) ==
    LET r == ScanSpans(line, [fs |-> st.font_sizes, line_text |-> <<>>,
                              line_font_size |-> 0], rtl)
        stripped == Strip(r.line_text)
    IN  IF stripped # <<>>
        THEN [font_sizes |-> r.fs,
              text_blocks |-> Append(st.text_blocks,
                                  [text |-> stripped,
                                   font_size |-> r.line_font_size,
                                   page |-> page_num + 1]),
              all_text |-> st.all_text \o <<" ">> \o stripped]
        ELSE [st EXCEPT !.font_sizes = r.fs]

RECURSIVE ScanLines(_, _, _, _)
ScanLines(lines, page_num, st, rtl) ==
    IF lines = <<>> THEN st
    ELSE ScanLines(Tail(lines), page_num,
                   ScanLine(Head(lines), page_num, st, rtl), rtl)

\* the loop "for page_num in range(len(doc))", from page index page_num on
RECURSIVE ScanPages(_, _, _, _)
ScanPages(pages, page_num, st, rtl) ==
    IF page_num >= Len(pages) THEN st
    ELSE ScanPages(pages, page_num + 1,
                   ScanLines(pages[page_num + 1], page_num, st, rtl), rtl)

(***************************************************************************)
(* the font analysis (lines 153-167)                                       *)
(***************************************************************************)
\* sorted(font_sizes.items(), key=lambda x: (-x[1], -x[0]))
RECURSIVE SortedFonts(_)
SortedFonts(fs) ==
    IF DOMAIN fs = {} THEN <<>>
    ELSE LET first == CHOOSE k \in DOMAIN fs :
                         \A j \in DOMAIN fs :
                            \/ fs[k] > fs[j]
                            \/ fs[k] = fs[j] /\ k >= j
             rest == [x \in DOMAIN fs \ {first} |-> fs[x]]
         IN  <<(<<first, fs[first]>>)>> \o SortedFonts(rest)

\* sorted(set(font_sizes.keys()), reverse=True)
RECURSIVE SortedDescending(_)
SortedDescending(S) ==
    IF S = {} THEN <<>>
    ELSE LET m == CHOOSE k \in S : \A j \in S : k >= j
         IN  <<m>> \o SortedDescending(S \ {m})

LevelNames == <<"title", "H1", "H2", "H3">>

\* the font mapping with H2 taken from the same index as H1
FontMapping_RepeatedIndex(unique_sizes) ==
    [l \in {LevelNames[k] : k \in 1..(IF Len(unique_sizes) < 4
                                     THEN Len(unique_sizes) ELSE 4)} |->
        IF l = "H2" THEN unique_sizes[2]
        ELSE unique_sizes[CHOOSE k \in 1..4 : LevelNames[k] = l]]

FontMapping(unique_sizes) ==
    [l \in {LevelNames[k] : k \in 1..(IF Len(unique_sizes) < 4
                                     THEN Len(unique_sizes) ELSE 4)} |->
        unique_sizes[CHOOSE k \in 1..4 : LevelNames[k] = l]]

\* size == font_mapping.get(level)
SizeIs(fm, level, size) == level \in DOMAIN fm /\ fm[level] = size

(***************************************************************************)
(* the classification loop (lines 173-190)                                 *)
(***************************************************************************)
TitlePageWindow == 2
TitleLengthCap == 150
ShortHeadingLen == 100

\* the title test with the page window one page too wide
TitleEligible_WidePage(page, text) ==
    page <= TitlePageWindow + 1 /\ Len(text) < TitleLengthCap

\* page <= 2 and len(text) < 150
TitleEligible(page, text) ==
    page <= TitlePageWindow /\ Len(text) < TitleLengthCap

\* self.is_likely_heading(text, document_language) or len(text) < 100
HeadingAccepted(text, language) ==
    is_likely_heading(text, language) \/ Len(text) < ShortHeadingLen

\* one iteration of "for block in text_blocks", on block number i
ClassifyBlock(blocks, i, fm, language, st) ==
    LET size == Round1(blocks[i].font_size * 10)
        text == blocks[i].text
        page == blocks[i].page
        heading(level) ==
            IF HeadingAccepted(text, language)
            THEN [st EXCEPT
                    !.outline = Append(@, [level |-> level, text |-> text,
                                           page |-> page])]
            ELSE st
    IN  IF SizeIs(fm, "title", size) /\ st.title = <<>>
        THEN IF TitleEligible(page, text)
             THEN [st EXCEPT !.title = text, !.title_block = i]
             ELSE st
        ELSE IF SizeIs(fm, "H1", size) THEN heading("H1")
        ELSE IF SizeIs(fm, "H2", size) THEN heading("H2")
        ELSE IF SizeIs(fm, "H3", size) THEN heading("H3")
        ELSE st

RECURSIVE ClassifyBlocks(_, _, _, _, _)
ClassifyBlocks(blocks, i, fm, language, st) ==
    IF i > Len(blocks) THEN st
    ELSE ClassifyBlocks(blocks, i + 1, fm, language,
                        ClassifyBlock(blocks, i, fm, language, st))

(***************************************************************************)
(* the first-page title fallback (lines 192-200)                           *)
(***************************************************************************)
\* index of the block the fallback takes the title from, 0 when it takes none
FallbackBlock(blocks) ==
    LET first_page == {i \in DOMAIN blocks : blocks[i].page = 1}
    IN  IF first_page = {} THEN 0
        ELSE LET max_font_size ==
                     CHOOSE f \in {blocks[i].font_size : i \in first_page} :
                        \A i \in first_page : blocks[i].font_size <= f
                 candidates == {i \in first_page :
                                   blocks[i].font_size = max_font_size}
                 c == CHOOSE i \in candidates : \A j \in candidates : i <= j
             IN  IF Len(blocks[c].text) < TitleLengthCap THEN c ELSE 0

TopFonts == 10

\* the returned dictionary (lines 202-218)
ResultRecord(t, o, language, sf, fm, pages) ==
    [title |-> t,
     outline |-> o,
     language |-> language,
     detected_fonts |-> SubSeq(sf, 1, IF Len(sf) < TopFonts THEN Len(sf)
                                      ELSE TopFonts),
     font_mapping |-> fm,
     total_pages |-> pages,
     total_headings |-> Len(o),
     headings_by_level |->
        [l \in {"H1", "H2", "H3"} |->
            Cardinality({k \in DOMAIN o : o[k].level = l})]]

(***************************************************************************)
(* Actions: main (lines 220-283) calling extract_title_and_headings        *)
(***************************************************************************)
CurrentDoc == pdf_files[file_idx]

\* lines 231-239
MainStart ==
    /\ pc = "start"
    /\ IF pdf_files = <<>>
       THEN pc' = "done"                      \* "No PDF files found": return
       ELSE pc' = "call"
    /\ results_summary' = <<>>
    /\ file_idx' = 1
    /\ UNCHANGED <<pdf_files, result, outputs, summary, returned, write_errors>>
    /\ UNCHANGED <<localVars, rtl_languages, detect_answers, normVars>>

\* lines 106-110: fitz.open raises, the call returns None
OpenFails ==
    /\ pc = "call"
    /\ ~CurrentDoc.readable
    /\ result' = NoneValue
    /\ returned' = Append(returned, [file |-> file_idx, result |-> NoneValue])
    /\ pc' = "check"
    /\ UNCHANGED <<pdf_files, file_idx, outputs, results_summary, summary,
                   write_errors>>
    /\ UNCHANGED <<localVars, rtl_languages, detect_answers, normVars>>

\* the call entered without fresh tallies: what an earlier call left is kept
OpenSucceeds_KeepTallies ==
    /\ pc = "call"
    /\ CurrentDoc.readable
    /\ pc' = "scan"
    /\ UNCHANGED <<font_sizes, text_blocks, all_text>>
    /\ UNCHANGED <<total_pages, document_language, sorted_fonts, font_mapping,
                   title, outline, title_block>>
    /\ UNCHANGED <<mainVars, rtl_languages, detect_answers, normVars>>

\* lines 106-114: the document opens; fresh font_sizes, text_blocks, all_text
OpenSucceeds ==
    /\ pc = "call"
    /\ CurrentDoc.readable
    /\ font_sizes' = EmptyTally
    /\ text_blocks' = <<>>
    /\ all_text' = <<>>
    /\ pc' = "scan"
    /\ UNCHANGED <<total_pages, document_language, sorted_fonts, font_mapping,
                   title, outline, title_block>>
    /\ UNCHANGED <<mainVars, rtl_languages, detect_answers, normVars>>

\* lines 116-147: the loops over pages, blocks, lines and spans
ScanDocument ==
    /\ pc = "scan"
    /\ LET st == ScanPages(CurrentDoc.pages, 0,
                     [font_sizes |-> font_sizes, text_blocks |-> text_blocks,
                      all_text |-> all_text], rtl_languages)
       IN  /\ font_sizes' = st.font_sizes
           /\ text_blocks' = st.text_blocks
           /\ all_text' = st.all_text
    /\ total_pages' = Len(CurrentDoc.pages)
    /\ pc' = "analyze"
    /\ UNCHANGED <<document_language, sorted_fonts, font_mapping, title,
                   outline, title_block>>
    /\ UNCHANGED <<mainVars, rtl_languages, detect_answers, normVars>>

\* lines 149-171: language detection, font analysis, empty title and outline
AnalyzeFonts ==
    /\ pc = "analyze"
    /\ IF all_text \in DOMAIN detect_answers
       THEN /\ document_language' = detect_answers[all_text]
            /\ UNCHANGED detect_answers
       ELSE \E language \in detect_language(all_text) :
               /\ document_language' = language
               /\ detect_answers' =
                     [t \in DOMAIN detect_answers \cup {all_text} |->
                         IF t = all_text THEN language ELSE detect_answers[t]]
    /\ sorted_fonts' = SortedFonts(font_sizes)
    /\ font_mapping' = FontMapping(SortedDescending(DOMAIN font_sizes))
    /\ title' = <<>>
    /\ outline' = <<>>
    /\ title_block' = 0
    /\ pc' = "classify"
    /\ UNCHANGED <<font_sizes, text_blocks, all_text, total_pages>>
    /\ UNCHANGED <<mainVars, rtl_languages, normVars>>

\* lines 173-190
ClassifyAll ==
    /\ pc = "classify"
    /\ LET st == ClassifyBlocks(text_blocks, 1, font_mapping,
                     document_language,
                     [title |-> title, outline |-> outline,
                      title_block |-> title_block])
       IN  /\ title' = st.title
           /\ outline' = st.outline
           /\ title_block' = st.title_block
    /\ pc' = "fallback"
    /\ UNCHANGED <<font_sizes, text_blocks, all_text, total_pages,
                   document_language, sorted_fonts, font_mapping>>
    /\ UNCHANGED <<mainVars, rtl_languages, detect_answers, normVars>>

\* lines 192-218: the first-page fallback, then the return
FallbackAndReturn ==
    /\ pc = "fallback"
    /\ LET c == IF title = <<>> /\ text_blocks # <<>>
                THEN FallbackBlock(text_blocks) ELSE 0
           t == IF c # 0 THEN text_blocks[c].text ELSE title
           r == ResultRecord(t, outline, document_language, sorted_fonts,
                             font_mapping, total_pages)
       IN  /\ title' = t
           /\ title_block' = IF c # 0 THEN c ELSE title_block
           /\ result' = r
           /\ returned' = Append(returned, [file |-> file_idx, result |-> r])
    /\ pc' = "check"
    /\ UNCHANGED <<pdf_files, file_idx, outputs, results_summary, summary,
                   write_errors>>
    /\ UNCHANGED <<font_sizes, text_blocks, all_text, total_pages,
                   document_language, sorted_fonts, font_mapping, outline>>
    /\ UNCHANGED <<rtl_languages, detect_answers, normVars>>

\* the for-loop of line 241 moves on, or ends
AfterFile == IF file_idx < Len(pdf_files) THEN "call" ELSE "summary"

\* the skip of an unreadable document written as a break out of the loop
SkipUnreadable_Break ==
    /\ pc = "check"
    /\ result = NoneValue
    /\ file_idx' = file_idx + 1
    /\ pc' = "summary"
    /\ UNCHANGED <<pdf_files, result, outputs, results_summary, summary,
                   returned, write_errors>>
    /\ UNCHANGED <<localVars, rtl_languages, detect_answers, normVars>>

\* lines 247-249
SkipUnreadable ==
    /\ pc = "check"
    /\ result = NoneValue
    /\ file_idx' = file_idx + 1
    /\ pc' = AfterFile
    /\ UNCHANGED <<pdf_files, result, outputs, results_summary, summary,
                   returned, write_errors>>
    /\ UNCHANGED <<localVars, rtl_languages, detect_answers, normVars>>

\* line 247, result is not None
KeepResult ==
    /\ pc = "check"
    /\ result # NoneValue
    /\ pc' = "write"
    /\ UNCHANGED <<mainVars, localVars, rtl_languages, detect_answers, normVars>>

\* lines 255-267: the JSON file is written and the summary entry added
WriteSucceeds ==
    /\ pc = "write"
    /\ outputs' = Append(outputs, [file |-> file_idx, result |-> result])
    /\ results_summary' = Append(results_summary,
            [filename |-> file_idx,
             title |-> result.title,
             language |-> result.language,
             headings_count |-> Len(result.outline),
             pages |-> result.total_pages])
    /\ file_idx' = file_idx + 1
    /\ pc' = AfterFile
    /\ UNCHANGED <<pdf_files, result, summary, returned, write_errors>>
    /\ UNCHANGED <<localVars, rtl_languages, detect_answers, normVars>>

\* lines 255-257, 269-270: open or json.dump raises; logged, nothing recorded
WriteFails ==
    /\ pc = "write"
    /\ write_errors' = write_errors \cup {file_idx}
    /\ file_idx' = file_idx + 1
    /\ pc' = AfterFile
    /\ UNCHANGED <<pdf_files, result, outputs, results_summary, summary,
                   returned>>
    /\ UNCHANGED <<localVars, rtl_languages, detect_answers, normVars>>

\* lines 272-281
SummarySucceeds ==
    /\ pc = "summary"
    /\ summary' = [processed_files |-> Len(results_summary),
                   files |-> results_summary,
                   languages_detected |->
                       {results_summary[i].language :
                            i \in DOMAIN results_summary}]
    /\ pc' = "done"
    /\ UNCHANGED <<pdf_files, file_idx, result, outputs, results_summary,
                   returned, write_errors>>
    /\ UNCHANGED <<localVars, rtl_languages, detect_answers, normVars>>

\* lines 274-276, 282-283: writing the summary raises; logged
SummaryFails ==
    /\ pc = "summary"
    /\ summary' = SummaryFailed
    /\ pc' = "done"
    /\ UNCHANGED <<pdf_files, file_idx, result, outputs, results_summary,
                   returned, write_errors>>
    /\ UNCHANGED <<localVars, rtl_languages, detect_answers, normVars>>

\* one call of extract_title_and_headings
NextExtract ==
    \/ OpenFails
    \/ OpenSucceeds
    \/ ScanDocument
    \/ AnalyzeFonts
    \/ ClassifyAll
    \/ FallbackAndReturn

\* main()
Next ==
    \/ MainStart
    \/ OpenFails
    \/ OpenSucceeds
    \/ ScanDocument
    \/ AnalyzeFonts
    \/ ClassifyAll
    \/ FallbackAndReturn
    \/ SkipUnreadable
    \/ KeepResult
    \/ WriteSucceeds
    \/ WriteFails
    \/ SummarySucceeds
    \/ SummaryFails

(***************************************************************************)
(* normalize_text applied twice                                            *)
(***************************************************************************)
NormalizeOnce ==
    /\ n_pc = "input"
    /\ n_once' = normalize_text(n_text, n_lang, rtl_languages)
    /\ n_pc' = "once"
    /\ UNCHANGED <<n_text, n_lang, n_twice>>
    /\ UNCHANGED <<pc, mainVars, localVars, rtl_languages, detect_answers>>

NormalizeTwice ==
    /\ n_pc = "once"
    /\ n_twice' = normalize_text(n_once, n_lang, rtl_languages)
    /\ n_pc' = "twice"
    /\ UNCHANGED <<n_text, n_lang, n_once>>
    /\ UNCHANGED <<pc, mainVars, localVars, rtl_languages, detect_answers>>

NextNorm == NormalizeOnce \/ NormalizeTwice

(***************************************************************************)
(* Inputs                                                                  *)
(***************************************************************************)
MaxLines == 2        \* lines of text in one document
MaxPage == 3         \* pages of one document
MaxHeadLines == 6    \* heading lines after the title line (SpecCap)
MaxBatch == 3        \* documents in one batch (SpecBatch)
MaxNormLen == 4      \* characters of a normalize_text input (SpecNorm)

Span(size, text) == [size |-> size, text |-> text]

TxtChapter1 == <<"C","h","a","p","t","e","r"," ","1">>
TxtIntroduction == <<"I","n","t","r","o","d","u","c","t","i","o","n">>
TxtConclusion == <<"C","o","n","c","l","u","s","i","o","n">>
TxtHelloWorld == <<"H","e","l","l","o"," ","W","o","r","l","d">>
TxtBlank == <<" ", "U+00A0">>
TxtNumbered(n) == <<"1", ".", " ">> \o Rep("x", n - 3)

\* the lines a document of the general family is made of
LineChoices ==
    { <<Span(1800, TxtChapter1)>>,
      <<Span(1800, Rep("x", 150))>>,
      <<Span(1800, Rep("x", 149))>>,
      <<Span(1600, TxtConclusion)>>,
      <<Span(1600, TxtNumbered(250))>>,
      <<Span(1204, TxtNumbered(120))>>,
      <<Span(1400, TxtBlank), Span(1196, TxtIntroduction)>> }

\* every sequence of p pages with at most n lines in all, over the lines L
RECURSIVE PagesOf(_, _, _)
PagesOf(p, n, L) ==
    IF p = 0 THEN {<<>>}
    ELSE UNION { { <<pg>> \o rest : pg \in [1..k -> L],
                                    rest \in PagesOf(p - 1, n - k, L) }
                 : k \in 0..n }

Unreadable == [readable |-> FALSE, pages |-> <<>>]
Readable(pages) == [readable |-> TRUE, pages |-> pages]

DocsGeneral ==
    { Readable(pages) :
        pages \in UNION { PagesOf(p, MaxLines, LineChoices) : p \in 0..MaxPage } }

\* a title line, then n heading lines with pairwise different texts at the
\* second or third largest size, the first k of them on page 1, the rest on
\* page 2
DigitChars == <<"1","2","3","4","5","6","7","8","9">>
HeadLine(i, size) ==
    <<Span(size, <<"S","e","c","t","i","o","n"," ">> \o <<DigitChars[i]>>)>>
DocsCap ==
    { Readable(<< <<(<<Span(1800, TxtHelloWorld)>>)>>
                   \o [i \in 1..k |-> HeadLine(i, sizes[i])],
                  [i \in 1..(n - k) |-> HeadLine(k + i, sizes[k + i])] >>) :
        n \in 0..MaxHeadLines, k \in 0..MaxHeadLines,
        sizes \in [1..MaxHeadLines -> {1600, 1400}] }

\* the documents of a batch
DocsBatch ==
    { Unreadable,
      Readable(<< <<(<<Span(1200, TxtHelloWorld)>>)>> >>),
      Readable(<< << <<Span(1800, TxtChapter1)>>,
                     <<Span(1600, TxtConclusion)>> >>,
                  << <<Span(1400, TxtBlank), Span(1196, TxtIntroduction)>> >> >>),
      Readable(<< << <<Span(1600, TxtNumbered(120))>> >>,
                  << >>,
                  << <<Span(1800, TxtChapter1)>> >> >>) }

NormAlphabet == {"a", " ", "\t", "U+00A0", "U+FB01", "U+00B4", "U+0301"}
NormLanguages == {"unknown", "ar", "he"}

(***************************************************************************)
(* Specifications                                                          *)
(***************************************************************************)
\* the state once line 228 has constructed the extractor, with the directory
\* listing files, the loop at file number idx and control at where
StartOf(files, idx, where) ==
    /\ pdf_files = files
    /\ file_idx = idx
    /\ pc = where
    /\ result = NoneValue
    /\ outputs = <<>>
    /\ results_summary = <<>>
    /\ summary = NoneValue
    /\ returned = <<>>
    /\ write_errors = {}
    /\ font_sizes = EmptyTally
    /\ text_blocks = <<>>
    /\ all_text = <<>>
    /\ total_pages = 0
    /\ document_language = "unknown"
    /\ sorted_fonts = <<>>
    /\ font_mapping = EmptyTally
    /\ title = <<>>
    /\ outline = <<>>
    /\ title_block = 0
    /\ rtl_languages = RtlLanguages
    /\ detect_answers = EmptyTally

NormIdle ==
    /\ n_pc = "idle"
    /\ n_text = <<>>
    /\ n_lang = "unknown"
    /\ n_once = <<>>
    /\ n_twice = <<>>

\* one call of extract_title_and_headings on a document of the general family
Init ==
    /\ \E d \in DocsGeneral \cup {Unreadable} : StartOf(<<d>>, 1, "call")
    /\ NormIdle

Spec == Init /\ [][NextExtract]_vars

\* one call of extract_title_and_headings on a document with many headings
InitCap ==
    /\ \E d \in DocsCap \cup {Unreadable} : StartOf(<<d>>, 1, "call")
    /\ NormIdle

SpecCap == InitCap /\ [][NextExtract]_vars

\* a batch of documents
InitBatch ==
    /\ \E n \in 0..MaxBatch : \E files \in [1..n -> DocsBatch] :
          StartOf(files, 0, "start")
    /\ NormIdle

SpecBatch == InitBatch /\ [][Next]_vars

\* normalize_text on every text of at most MaxNormLen characters
InitNorm ==
    /\ StartOf(<<>>, 0, "idle")
    /\ n_pc = "input"
    /\ \E n \in 0..MaxNormLen : n_text \in [1..n -> NormAlphabet]
    /\ n_lang \in NormLanguages
    /\ n_once = <<>>
    /\ n_twice = <<>>

SpecNorm == InitNorm /\ [][NextNorm]_vars

(***************************************************************************)
(* Properties                                                              *)
(***************************************************************************)
\* extract_title_and_headings has returned a result dictionary
Returned == pc = "check" /\ result # NoneValue

\* text_blocks holds the scanned lines of the current document
Scanned == pc \in {"analyze", "classify", "fallback"} \/ Returned

\* font_mapping holds the level map of the current document
Mapped == pc \in {"classify", "fallback"} \/ Returned

EntriesOnPage(o, p) == {k \in DOMAIN o : o[k].page = p}

\* the case-folded, normalized key of a heading text
TextKey(t) ==
    LET n == normalize_text(t, "unknown", RtlLanguages)
    IN  [i \in DOMAIN n |-> ToLower(n[i])]

\* C1: in every returned outline, no page carries more than 5 entries.
C1_PerPageCap ==
    Returned =>
        \A p \in 1..total_pages :
            Cardinality(EntriesOnPage(result.outline, p)) <= 5

\* C2: in every returned outline, no two entries have the same case-folded,
\* normalized text key.
C2_NoDuplicateKeys ==
    Returned =>
        \A i, j \in DOMAIN result.outline :
            i # j => TextKey(result.outline[i].text)
                       # TextKey(result.outline[j].text)

\* C3: a returned non-empty title is the text of a block that lies on page 1
\* or 2 and is shorter than 150 characters, whichever path chose it.
C3_TitleInWindow ==
    (Returned /\ result.title # <<>>) =>
        /\ title_block \in DOMAIN text_blocks
        /\ text_blocks[title_block].text = result.title
        /\ text_blocks[title_block].page <= 2
        /\ Len(text_blocks[title_block].text) < 150

\* a title chosen by the first-page fallback: its block is not at the title size
C3_Witness ==
    /\ Returned
    /\ result.title # <<>>
    /\ title_block \in DOMAIN text_blocks
    /\ ~SizeIs(font_mapping, "title", text_blocks[title_block].font_size)

\* C4: a document with a non-empty text block on page 1 gets a non-empty title.
C4_TitleWhenFirstPageHasText ==
    Returned =>
        ((\E i \in DOMAIN text_blocks : text_blocks[i].page = 1)
            => result.title # <<>>)

\* C5: the level map is injective: no size is given two levels (and, the map
\* being a dictionary from level to size, no level two sizes); every mapped
\* size is a size that was tallied.
C5_LevelMapInjective ==
    Mapped =>
        /\ \A l1, l2 \in DOMAIN font_mapping :
              font_mapping[l1] = font_mapping[l2] => l1 = l2
        /\ \A l \in DOMAIN font_mapping : font_mapping[l] \in DOMAIN font_sizes
        /\ DOMAIN font_mapping \subseteq Range(LevelNames)

\* a level map with at least three levels
C5_Witness ==
    Mapped /\ {"title", "H1", "H2"} \subseteq DOMAIN font_mapping

\* C6: normalize_text applied to its own output returns that output, for
\* right-to-left and other language hints, and returns "" for empty input.
C6_NormalizeIdempotent ==
    /\ n_pc = "twice" => n_twice = n_once
    /\ (n_pc \in {"once", "twice"} /\ n_text = <<>>) => n_once = <<>>

\* a right-to-left input that normalize_text changed and did not empty
C6_Witness ==
    /\ n_pc = "twice"
    /\ n_lang \in RtlLanguages
    /\ n_once # n_text
    /\ n_once # <<>>

\* C7: consecutive lines of one page with one style form a single block: no
\* two neighbouring candidates share page and style.
C7_SameStyleLinesMerged ==
    Scanned =>
        \A i \in 1..(Len(text_blocks) - 1) :
            ~ /\ text_blocks[i].page = text_blocks[i + 1].page
              /\ text_blocks[i].font_size = text_blocks[i + 1].font_size

OutputsOf(i) == {k \in DOMAIN outputs : outputs[k].file = i}
SummaryWritten == summary # NoneValue /\ summary # SummaryFailed

C9_NoCrossDocumentState ==
    /\ rtl_languages = RtlLanguages
    /\ \A i, j \in DOMAIN returned :
          pdf_files[returned[i].file] = pdf_files[returned[j].file]
             => returned[i].result = returned[j].result

\* a readable document processed first and again after a different readable one
C9_Witness ==
    /\ Len(returned) >= 3
    /\ pdf_files[1].readable
    /\ pdf_files[2].readable
    /\ pdf_files[1] # pdf_files[2]
    /\ pdf_files[3] = pdf_files[1]
    /\ returned[3].result # NoneValue
    /\ returned[3].result.outline # <<>>

\* C10: a block of 250 characters at the H1 size gives neither the title nor
\* an outline entry.
C10_LongBlockExcluded ==
    Returned =>
        \A i \in DOMAIN text_blocks :
            (/\ Len(text_blocks[i].text) = 250
             /\ SizeIs(font_mapping, "H1", text_blocks[i].font_size))
            => /\ title_block # i
               /\ result.title # text_blocks[i].text
               /\ \A k \in DOMAIN result.outline :
                     result.outline[k].text # text_blocks[i].text

\* a 250-character block with a numbered prefix at the H1 size that is the
\* largest block of page 1, so that the first-page fallback looked at it
C10_Witness ==
    /\ Returned
    /\ \E i \in DOMAIN text_blocks :
          /\ Len(text_blocks[i].text) = 250
          /\ MatchNumbered(text_blocks[i].text)
          /\ SizeIs(font_mapping, "H1", text_blocks[i].font_size)
          /\ text_blocks[i].page = 1
          /\ \A j \in DOMAIN text_blocks :
                text_blocks[j].page = 1
                   => text_blocks[j].font_size <= text_blocks[i].font_size
    /\ result.title = <<>>

====
